---- MODULE Spec2Model ----
(***************************************************************************)
(* A-Puzzle-A-Day solver (src/solve.py) and statistics tool (src/stat.py). *)
(*                                                                         *)
(* Arrays are sequences of rows, rows are sequences of integers; numpy's   *)
(* 0-based index i is the 1-based index i+1 here.  Loop variables that the *)
(* source counts from 0 (top_row, left_col, k) keep their 0-based values.  *)
(***************************************************************************)
EXTENDS Integers, Sequences, FiniteSets, Bags, TLC

BOARD_DIM_SIZE == 7

START_BOARD ==
  << <<0, 0, 0, 0, 0, 0, 1>>,
     <<0, 0, 0, 0, 0, 0, 1>>,
     <<0, 0, 0, 0, 0, 0, 0>>,
     <<0, 0, 0, 0, 0, 0, 0>>,
     <<0, 0, 0, 0, 0, 0, 0>>,
     <<0, 0, 0, 0, 0, 0, 0>>,
     <<0, 0, 0, 1, 1, 1, 1>> >>

(***************************************************************************)
(* numpy primitives, by what they compute                                  *)
(***************************************************************************)
\* ndarray.shape of a 2-d array
Shape(m) == <<Len(m), Len(m[1])>>

\* an array given by its entries, held as a tuple of rows that are tuples
Array(entries) == [i \in DOMAIN entries |-> entries[i] \o <<>>] \o <<>>

\* np.fliplr: reverse the order of the columns
fliplr(m) ==
  Array([i \in 1..Len(m) |-> [j \in 1..Len(m[1]) |-> m[i][Len(m[1]) + 1 - j]]])

\* one counterclockwise quarter turn: out[i][j] = m[j][W-1-i] (0-based)
Rot90Once(m) ==
  Array([i \in 1..Len(m[1]) |-> [j \in 1..Len(m) |-> m[j][Len(m[1]) + 1 - i]]])

\* np.rot90(m, k=k)
RECURSIVE rot90(_, _)
rot90(m, k) == IF k = 0 THEN m ELSE rot90(Rot90Once(m), k - 1)

\* np.zeros((h, w))
Zeros(h, w) == Array([i \in 1..h |-> [j \in 1..w |-> 0]])

BoardIndex == 1..BOARD_DIM_SIZE

\* a + b on two boards
ArrAdd(a, b) ==
  Array([i \in BoardIndex |-> [j \in BoardIndex |-> a[i][j] + b[i][j]]])

\* np.max(a) of a board
NpMax(a) ==
  CHOOSE v \in {a[i][j] : i \in BoardIndex, j \in BoardIndex} :
    \A i \in BoardIndex, j \in BoardIndex : a[i][j] <= v

\* np.all(a == b) for arrays of equal shape
NpAllEq(a, b) == \A i \in 1..Len(a), j \in 1..Len(a[1]) : a[i][j] = b[i][j]

\* the builtin sum(pieces) over a sequence of boards: 0 + p1 + p2 + ...
ArrSum(pieces) ==
  Array([i \in BoardIndex |-> [j \in BoardIndex |->
     LET F[n \in 0..Len(pieces)] == IF n = 0 THEN 0 ELSE F[n - 1] + pieces[n][i][j]
     IN F[Len(pieces)]]])

(***************************************************************************)
(* Orientation enumeration and placement generation                        *)
(***************************************************************************)
\* the test of line 56-59: rotation differs from every orientation kept so far
IsNewOrientationShapeOnly(rotation, orients) ==
  \A n \in 1..Len(orients) : Shape(rotation) # Shape(orients[n])

IsNewOrientationLastOnly(rotation, orients) ==
  \/ Len(orients) = 0
  \/ Shape(rotation) # Shape(orients[Len(orients)])
  \/ ~NpAllEq(rotation, orients[Len(orients)])

IsNewOrientation(rotation, orients) ==
  \A n \in 1..Len(orients) :
    Shape(rotation) # Shape(orients[n]) \/ ~NpAllEq(rotation, orients[n])

\* the candidate visited at step n (0..7) of the two nested loops
Candidate(b, n) == rot90(IF n \div 4 = 0 THEN b ELSE fliplr(b), n % 4)

RECURSIVE OrientationsUpTo(_, _)
OrientationsUpTo(b, n) ==
  IF n = 0 THEN <<>>
  ELSE LET prev == OrientationsUpTo(b, n - 1)
           rotation == Candidate(b, n - 1)
       IN IF IsNewOrientation(rotation, prev) THEN Append(prev, rotation) ELSE prev

iter_orientations(p) == OrientationsUpTo(p, 8)

\* fits(*pieces)
fitsAtLeastOne(pieces) == NpMax(ArrSum(pieces)) >= 1

fits(pieces) == NpMax(ArrSum(pieces)) = 1

\* lines 77-81: a zero board with oriented_piece written at (top_row, left_col)
PlacementAt(oriented_piece, top_row, left_col) ==
  Array([i \in 1..7 |-> [j \in 1..7 |->
     IF /\ i - 1 >= top_row
        /\ i - 1 < top_row + Shape(oriented_piece)[1]
        /\ j - 1 >= left_col
        /\ j - 1 < left_col + Shape(oriented_piece)[2]
     THEN oriented_piece[i - top_row][j - left_col]
     ELSE 0]])

\* range(0, BOARD_DIM_SIZE - shape + 1) as the last value of the loop variable
LastAnchor(extent) == BOARD_DIM_SIZE - extent

\* the anchors of the two loops of iter_placements in visiting order
AnchorAt(oriented_piece, n) ==
  LET cols == LastAnchor(Shape(oriented_piece)[2]) + 1
  IN <<(n - 1) \div cols, (n - 1) % cols>>

AnchorCount(oriented_piece) ==
  (LastAnchor(Shape(oriented_piece)[1]) + 1) * (LastAnchor(Shape(oriented_piece)[2]) + 1)

RECURSIVE PlacementsUpTo(_, _)
PlacementsUpTo(oriented_piece, n) ==
  IF n = 0 THEN <<>>
  ELSE LET prev == PlacementsUpTo(oriented_piece, n - 1)
           a == AnchorAt(oriented_piece, n)
           placement == PlacementAt(oriented_piece, a[1], a[2])
       IN IF fits(<<START_BOARD, placement>>) THEN Append(prev, placement) ELSE prev

iter_placements(oriented_piece) ==
  PlacementsUpTo(oriented_piece, AnchorCount(oriented_piece))

RECURSIVE PlacedUpTo(_, _)
PlacedUpTo(orients, n) ==
  IF n = 0 THEN <<>>
  ELSE PlacedUpTo(orients, n - 1) \o iter_placements(orients[n])

iter_placed_orientations(p) ==
  PlacedUpTo(iter_orientations(p), Len(iter_orientations(p)))

\* the eight shapes of lines 93-159, in the order of PIECE_PLACEMENTS
PIECE_SHAPES ==
  << << <<1, 1, 1>>, <<1, 1, 1>> >>,
     << <<1, 1, 1>>, <<1, 1, 0>> >>,
     << <<1, 1, 1>>, <<1, 0, 0>>, <<1, 0, 0>> >>,
     << <<0, 1, 1>>, <<0, 1, 0>>, <<1, 1, 0>> >>,
     << <<1, 1, 1, 1>>, <<1, 0, 0, 0>> >>,
     << <<0, 0, 1, 0>>, <<1, 1, 1, 1>> >>,
     << <<0, 1, 1, 1>>, <<1, 1, 0, 0>> >>,
     << <<1, 1>>, <<0, 1>>, <<1, 1>> >> >>

PIECE_NAMES ==
  <<"RECT", "RECT_NOTCH_CORNER", "RIGHT", "ESS", "ELL", "SIGN_POST", "CRINKLE", "CEE">>

\* lines 93-159: the placements of each piece, computed once
RECT == iter_placed_orientations(PIECE_SHAPES[1])

RECT_NOTCH_CORNER == iter_placed_orientations(PIECE_SHAPES[2])

RIGHT == iter_placed_orientations(PIECE_SHAPES[3])

ESS == iter_placed_orientations(PIECE_SHAPES[4])

ELL == iter_placed_orientations(PIECE_SHAPES[5])

SIGN_POST == iter_placed_orientations(PIECE_SHAPES[6])

CRINKLE == iter_placed_orientations(PIECE_SHAPES[7])

CEE == iter_placed_orientations(PIECE_SHAPES[8])

PIECE_PLACEMENTS ==
  <<RECT, RECT_NOTCH_CORNER, RIGHT, ESS, ELL, SIGN_POST, CRINKLE, CEE>>

MONTH_DAY_DECODER ==
  << << <<"J","a","n">>, <<"F","e","b">>, <<"M","a","r">>, <<"A","p","r">>,
        <<"M","a","y">>, <<"J","u","n">>, <<"?","?","?">> >>,
     << <<"J","u","l">>, <<"A","u","g">>, <<"S","e","p">>, <<"O","c","t">>,
        <<"N","o","v">>, <<"D","e","c">>, <<"?","?","?">> >>,
     << <<"0","0","1">>, <<"0","0","2">>, <<"0","0","3">>, <<"0","0","4">>,
        <<"0","0","5">>, <<"0","0","6">>, <<"0","0","7">> >>,
     << <<"0","0","8">>, <<"0","0","9">>, <<"0","1","0">>, <<"0","1","1">>,
        <<"0","1","2">>, <<"0","1","3">>, <<"0","1","4">> >>,
     << <<"0","1","5">>, <<"0","1","6">>, <<"0","1","7">>, <<"0","1","8">>,
        <<"0","1","9">>, <<"0","2","0">>, <<"0","2","1">> >>,
     << <<"0","2","2">>, <<"0","2","3">>, <<"0","2","4">>, <<"0","2","5">>,
        <<"0","2","6">>, <<"0","2","7">>, <<"0","2","8">> >>,
     << <<"0","2","9">>, <<"0","3","0">>, <<"0","3","1">>, <<"?","?","?">>,
        <<"?","?","?">>, <<"?","?","?">>, <<"?","?","?">> >> >>

\* a[mask] for a boolean mask: the entries of table at the cells where combined
\* is 0, in row-major order (line 285)
ZeroMasked(table, combined) ==
  LET F[n \in 0..(BOARD_DIM_SIZE * BOARD_DIM_SIZE)] ==
        IF n = 0 THEN <<>>
        ELSE LET r == ((n - 1) \div BOARD_DIM_SIZE) + 1
                 c == ((n - 1) % BOARD_DIM_SIZE) + 1
             IN IF combined[r][c] = 0 THEN Append(F[n - 1], table[r][c])
                ELSE F[n - 1]
  IN F[BOARD_DIM_SIZE * BOARD_DIM_SIZE]

\* sep.join(parts) on strings held as sequences of characters
RECURSIVE Join(_, _)
Join(sep, parts) ==
  IF Len(parts) = 0 THEN <<>>
  ELSE IF Len(parts) = 1 THEN parts[1]
  ELSE Join(sep, SubSeq(parts, 1, Len(parts) - 1)) \o sep \o parts[Len(parts)]

\* line 283: combined = sum(sln)
CombinedWithoutStart(sln) == ArrSum(Tail(sln))

Combined(sln) == ArrSum(sln)

\* line 285: the Date Key of a Solution
DateName(sln) == Join(<<"-">>, ZeroMasked(MONTH_DAY_DECODER, Combined(sln)))

(***************************************************************************)
(* Bounds of the search inputs.  The full candidate lists span a tree of   *)
(* several 10^9 nodes; _solve is run on windows of MaxCand consecutive     *)
(* entries of every list of PIECE_PLACEMENTS, taken at places where the    *)
(* full search has solutions, and on the lists in several piece orders.    *)
(***************************************************************************)
MaxCand == 2

MaxShift == 2

\* first index (1-based) of the window of each piece, one row per fixture
SEARCH_BASES ==
  << <<29, 73, 62, 74, 14, 85, 58, 28>>,
     <<24, 79, 31, 45, 31, 116, 58, 85>>,
     <<29, 115, 42, 10, 149, 17, 79, 5>> >>

Min(a, b) == IF a <= b THEN a ELSE b

Window(p, first) ==
  SubSeq(PIECE_PLACEMENTS[p], first,
         Min(first + MaxCand - 1, Len(PIECE_PLACEMENTS[p])))

\* the candidate lists of fixture f, in the order of PIECE_PLACEMENTS
Candidates(f) == [p \in 1..Len(PIECE_SHAPES) |-> Window(p, SEARCH_BASES[f][p])]

\* piece orders: the fixed order rotated by s places, and the reverse order
Rotated(s) ==
  [n \in 1..Len(PIECE_SHAPES) |-> ((n - 1 + s) % Len(PIECE_SHAPES)) + 1]

Reversed == [n \in 1..Len(PIECE_SHAPES) |-> Len(PIECE_SHAPES) + 1 - n]

PieceOrders == {Rotated(s) : s \in 0..MaxShift} \cup {Reversed}

(***************************************************************************)
(* _solve                                                                  *)
(***************************************************************************)
\* line 179: the partial assignment covers some cell twice
OverlapsAboveTwo(set_pieces_sum) == NpMax(set_pieces_sum) > 2

Overlaps(set_pieces_sum) == NpMax(set_pieces_sum) > 1

\* _solve as the list of everything the generator yields
RECURSIVE solve_rec(_, _, _)
solve_rec(set_pieces, set_pieces_sum, pieces_left) ==
  IF Overlaps(set_pieces_sum) THEN <<>>
  ELSE IF Len(pieces_left) = 0 THEN <<set_pieces>>
  ELSE LET placements == pieces_left[1]
           rest == SubSeq(pieces_left, 2, Len(pieces_left))
           F[n \in 0..Len(placements)] ==
             IF n = 0 THEN <<>>
             ELSE F[n - 1] \o solve_rec(Append(set_pieces, placements[n]),
                                        ArrAdd(set_pieces_sum, placements[n]),
                                        rest)
       IN F[Len(placements)]

VARIABLES
  \* iter_placed_orientations as it runs for one piece
  piece,          \* index of the piece in PIECE_SHAPES
  gpc,            \* "orient" | "place" | "done" | "off"
  step,           \* candidates (gpc = "orient") or anchors (gpc = "place") visited
  orientations,   \* the list built by iter_orientations
  oi,             \* index of the orientation iter_placements works on
  placed,         \* placements yielded so far, each with its orientation and anchor
  \* solve(): the generator _solve as a stack of suspended calls
  spc,            \* "run" | "done" | "off"
  fixture,        \* which row of SEARCH_BASES bounds the candidate lists
  order,          \* the n-th list handed to _solve is the one of piece order[n]
  stack,          \* one frame per active call of _solve, innermost last
  yielded,        \* the Solutions yielded so far
  \* solvemp(), its Pool, and the loop of __main__ that consumes it
  mpc,            \* where the coordinating process is, "off" when it does not run
  chunksize,      \* tasks per chunk of imap_unordered
  nworkers,       \* processes of the Pool
  total,          \* progress total: len(args)
  completed,      \* progress.advance calls so far
  taken,          \* chunks taken from the task queue, in order
  busy,           \* busy[w]: the chunk worker w computes, 0 when it is idle
  outqueue,       \* results of finished chunks, in the order they finished
  subsets,        \* results of the chunk the iterator is handing out
  subset,         \* what is left of solution_subset in the inner loop
  sln,            \* the loop variables of __main__
  name,
  data,
  files,          \* the output directory: file stem |-> the list stored in it
  rmwlog,         \* who opened which file for reading or writing, in order
  \* the statistics tool
  tpc,            \* "loop" | "done" | "raised" | "off"
  dir,            \* the directory it reads: file stem |-> len(data)
  todo,           \* stems iterdir has not produced yet
  solution_count,
  valid_solution_count,
  most_solveable_count,
  most_solvable_name,
  least_solveable_count,
  least_solvable_name

genVars == <<piece, gpc, step, orientations, oi, placed>>

solveVars == <<spc, fixture, order, stack, yielded>>

mpVars ==
  <<mpc, chunksize, nworkers, total, completed, taken, busy, outqueue, subsets,
    subset, sln, name, data, files, rmwlog>>

statVars ==
  <<tpc, dir, todo, solution_count, valid_solution_count, most_solveable_count,
    most_solvable_name, least_solveable_count, least_solvable_name>>

vars == <<genVars, solveVars, mpVars, statVars>>

GenOff ==
  /\ piece = 0 /\ gpc = "off" /\ step = 0 /\ orientations = <<>> /\ oi = 0
  /\ placed = <<>>

SolveOff ==
  /\ spc = "off" /\ fixture = 0 /\ order = <<>> /\ stack = <<>> /\ yielded = <<>>

MPOff ==
  /\ mpc = "off" /\ chunksize = 0 /\ nworkers = 0 /\ total = 0 /\ completed = 0
  /\ taken = 0 /\ busy = <<>> /\ outqueue = <<>> /\ subsets = <<>> /\ subset = <<>>
  /\ sln = <<>> /\ name = <<>> /\ data = <<>> /\ files = <<>> /\ rmwlog = <<>>

\* Optional[...]: None is the empty sequence, a value v is <<v>>
None == <<>>

Some(v) == <<v>>

StatOff ==
  /\ tpc = "off" /\ dir = <<>> /\ todo = {} /\ solution_count = 0
  /\ valid_solution_count = 0
  /\ most_solveable_count = None /\ most_solvable_name = None
  /\ least_solveable_count = None /\ least_solvable_name = None

(***************************************************************************)
(* iter_placed_orientations, one loop iteration per step                   *)
(***************************************************************************)
GenInit ==
  /\ piece \in 1..Len(PIECE_SHAPES)
  /\ gpc = "orient"
  /\ step = 0
  /\ orientations = <<>>
  /\ oi = 0
  /\ placed = <<>>
  /\ SolveOff /\ MPOff /\ StatOff

\* one iteration of the inner loop of iter_orientations
OrientStep ==
  /\ gpc = "orient" /\ step < 8
  /\ LET rotation == Candidate(PIECE_SHAPES[piece], step)
     IN orientations' =
          IF IsNewOrientation(rotation, orientations)
          THEN Append(orientations, rotation) ELSE orientations
  /\ step' = step + 1
  /\ UNCHANGED <<piece, gpc, oi, placed, solveVars, mpVars, statVars>>

\* yield from orientations: the first orientation reaches iter_placements
OrientDone ==
  /\ gpc = "orient" /\ step = 8
  /\ gpc' = "place" /\ oi' = 1 /\ step' = 0
  /\ UNCHANGED <<piece, orientations, placed, solveVars, mpVars, statVars>>

\* one iteration of the inner loop of iter_placements
PlaceStep ==
  /\ gpc = "place" /\ oi <= Len(orientations)
  /\ step < AnchorCount(orientations[oi])
  /\ LET a == AnchorAt(orientations[oi], step + 1)
         placement == PlacementAt(orientations[oi], a[1], a[2])
     IN placed' =
          IF fits(<<START_BOARD, placement>>)
          THEN Append(placed, [o |-> oi, top_row |-> a[1], left_col |-> a[2],
                               mask |-> placement])
          ELSE placed
  /\ step' = step + 1
  /\ UNCHANGED <<piece, gpc, orientations, oi, solveVars, mpVars, statVars>>

\* iter_placements is exhausted: next orientation, or the list is complete
PlaceNext ==
  /\ gpc = "place" /\ oi <= Len(orientations)
  /\ step = AnchorCount(orientations[oi])
  /\ IF oi < Len(orientations)
     THEN oi' = oi + 1 /\ step' = 0 /\ gpc' = gpc
     ELSE oi' = oi /\ step' = step /\ gpc' = "done"
  /\ UNCHANGED <<piece, orientations, placed, solveVars, mpVars, statVars>>

GenNext == OrientStep \/ OrientDone \/ PlaceStep \/ PlaceNext

SpecGen == GenInit /\ [][GenNext]_vars

(***************************************************************************)
(* solve(): _solve run as a generator.  A frame is one call: its           *)
(* arguments (pieces_left as the number of lists already consumed), the    *)
(* position in its for loop and whether its body has started.              *)
(***************************************************************************)
Frame(set_pieces, set_pieces_sum, level) ==
  [set_pieces |-> set_pieces, set_pieces_sum |-> set_pieces_sum,
   level |-> level, i |-> 1, pc |-> "entry"]

\* the lists of candidates in the order they are handed to _solve
Lists == [n \in 1..Len(PIECE_SHAPES) |-> Candidates(fixture)[order[n]]]

Top == stack[Len(stack)]

Pop == SubSeq(stack, 1, Len(stack) - 1)

\* len(pieces_left) == 0 in the call of frame fr
NoPiecesLeft(fr) == fr.level = Len(Lists)

\* the for loop of frame fr has no placement left to visit
LoopExhaustedEarly(fr) == fr.i >= Len(Lists[fr.level + 1])

LoopExhausted(fr) == fr.i > Len(Lists[fr.level + 1])

SolveInit ==
  /\ GenOff /\ MPOff /\ StatOff
  /\ spc = "run"
  /\ order \in PieceOrders
  /\ fixture \in 1..Len(SEARCH_BASES)
  /\ stack = <<Frame(<<START_BOARD>>, START_BOARD, 0)>>
  /\ yielded = <<>>

\* lines 179-180: the call returns at once
Prune ==
  /\ spc = "run" /\ stack # <<>> /\ Top.pc = "entry"
  /\ Overlaps(Top.set_pieces_sum)
  /\ stack' = Pop
  /\ UNCHANGED <<spc, fixture, order, yielded, genVars, mpVars, statVars>>

\* lines 182-183: a complete assignment is yielded, and the call returns
Yield ==
  /\ spc = "run" /\ stack # <<>> /\ Top.pc = "entry"
  /\ ~Overlaps(Top.set_pieces_sum)
  /\ NoPiecesLeft(Top)
  /\ yielded' = Append(yielded, Top.set_pieces)
  /\ stack' = Pop
  /\ UNCHANGED <<spc, fixture, order, genVars, mpVars, statVars>>

\* line 185: the call takes the next list and enters its loop
Descend ==
  /\ spc = "run" /\ stack # <<>> /\ Top.pc = "entry"
  /\ ~Overlaps(Top.set_pieces_sum)
  /\ ~NoPiecesLeft(Top)
  /\ stack' = [stack EXCEPT ![Len(stack)].pc = "loop"]
  /\ UNCHANGED <<spc, fixture, order, yielded, genVars, mpVars, statVars>>

\* lines 186-191: one iteration of the loop calls _solve on the next placement
Recurse ==
  /\ spc = "run" /\ stack # <<>> /\ Top.pc = "loop"
  /\ ~LoopExhausted(Top)
  /\ LET placement == Lists[Top.level + 1][Top.i]
     IN stack' = Append([stack EXCEPT ![Len(stack)].i = Top.i + 1],
                        Frame(Append(Top.set_pieces, placement),
                              ArrAdd(Top.set_pieces_sum, placement),
                              Top.level + 1))
  /\ UNCHANGED <<spc, fixture, order, yielded, genVars, mpVars, statVars>>

\* the loop is over: the call returns
Return ==
  /\ spc = "run" /\ stack # <<>> /\ Top.pc = "loop"
  /\ LoopExhausted(Top)
  /\ stack' = Pop
  /\ UNCHANGED <<spc, fixture, order, yielded, genVars, mpVars, statVars>>

\* the outermost call has returned: the generator is exhausted
Exhausted ==
  /\ spc = "run" /\ stack = <<>>
  /\ spc' = "done"
  /\ UNCHANGED <<fixture, order, stack, yielded, genVars, mpVars, statVars>>

SolveNext == Prune \/ Yield \/ Descend \/ Recurse \/ Return \/ Exhausted

SpecSolve == SolveInit /\ [][SolveNext]_vars

(***************************************************************************)
(* solvemp() and the loop of __main__.  The Pool has nworkers processes    *)
(* that take chunks of chunksize tasks from the task queue in order and    *)
(* put each chunk's results on the result queue when they finish; the      *)
(* iterator of imap_unordered hands the results out in that order.  The    *)
(* source fixes chunksize=128 over several thousand tasks and one process  *)
(* per CPU; both are inputs here, bounded to the few tasks of a fixture.   *)
(***************************************************************************)
layers == 2

MaxChunk == 2

MaxWorkers == 2

FixedOrder == [n \in 1..Len(PIECE_SHAPES) |-> n]

\* line 236: the arguments of one task, for the lists from index first on
TaskShortLists(partial_solution, all_lists, first) ==
  [set_pieces |-> partial_solution,
   set_pieces_sum |-> ArrSum(partial_solution),
   pieces_left |-> SubSeq(all_lists, first + 1, Len(all_lists))]

Task(partial_solution, all_lists, first) ==
  [set_pieces |-> partial_solution,
   set_pieces_sum |-> ArrSum(partial_solution),
   pieces_left |-> SubSeq(all_lists, first, Len(all_lists))]

\* a sequence given by its entries, held as a tuple
Tuple(entries) == entries \o <<>>

\* list(arg_builder(layers=n)) over the candidate lists all_lists
arg_builder(n, all_lists) ==
  LET partials == solve_rec(<<START_BOARD>>, START_BOARD, SubSeq(all_lists, 1, n))
  IN Tuple([t \in 1..Len(partials) |-> Task(partials[t], all_lists, n + 1)])

\* _solvetolist(args)
solvetolist(a) == solve_rec(a.set_pieces, a.set_pieces_sum, a.pieces_left)

\* solve(), args of solvemp and _solvetolist of every task are pure functions
\* of the candidate lists: their values, computed once for each fixture
solve ==
  Tuple([f \in 1..Len(SEARCH_BASES) |->
           solve_rec(<<START_BOARD>>, START_BOARD, Tuple(Candidates(f)))])

ARGS == Tuple([f \in 1..Len(SEARCH_BASES) |-> arg_builder(layers, Tuple(Candidates(f)))])

TASK_RESULTS ==
  Tuple([f \in 1..Len(SEARCH_BASES) |->
           Tuple([t \in 1..Len(ARGS[f]) |-> solvetolist(ARGS[f][t])])])

\* args of solvemp in the run
Args == ARGS[fixture]

\* the chunks imap_unordered cuts the tasks into
NumChunks == (total + chunksize - 1) \div chunksize

ChunkFirst(c) == (c - 1) * chunksize + 1

ChunkLast(c) == Min(c * chunksize, total)

\* what a worker returns for chunk c: the result of each of its tasks, in order
ChunkResult(c) == SubSeq(TASK_RESULTS[fixture], ChunkFirst(c), ChunkLast(c))

\* lines 289-293: the list in the file if it exists, else a new list
LoadedFresh(dirnow, stem) == <<>>

Loaded(dirnow, stem) == IF stem \in DOMAIN dirnow THEN dirnow[stem] ELSE <<>>

\* line 299: the 8 placements of the Solution, without the start board
Entry(solution) == Tail(solution)

\* the file of stem holds content; every other file is as it was
Stored(dirnow, stem, content) ==
  [x \in DOMAIN dirnow \cup {stem} |-> IF x = stem THEN content ELSE dirnow[x]]

\* directories an earlier run may have left behind: none, or one file
LeftBehind(f) ==
  {<<>>} \cup
  {Stored(<<>>, DateName(s), <<Entry(s)>>) : s \in {solve[f][1]}}

MPInit ==
  /\ GenOff /\ StatOff
  /\ spc = "off" /\ stack = <<>> /\ yielded = <<>>
  /\ fixture \in 1..Len(SEARCH_BASES)
  /\ order = FixedOrder
  /\ mpc = "reset"
  /\ chunksize \in 1..MaxChunk
  /\ nworkers \in 1..MaxWorkers
  /\ total = 0 /\ completed = 0 /\ taken = 0
  /\ busy = [w \in 1..nworkers |-> 0]
  /\ outqueue = <<>> /\ subsets = <<>> /\ subset = <<>>
  /\ sln = <<>> /\ name = <<>> /\ data = <<>>
  /\ files \in LeftBehind(fixture)
  /\ rmwlog = <<>>

\* lines 267-270: the output directory is removed and created again
ResetDir ==
  /\ mpc = "reset"
  /\ files' = <<>>
  /\ mpc' = "build"
  /\ UNCHANGED <<chunksize, nworkers, total, completed, taken, busy, outqueue,
                 subsets, subset, sln, name, data, rmwlog>>
  /\ UNCHANGED <<genVars, solveVars, statVars>>

\* lines 238-244: the tasks are built and handed to the Pool
BuildArgs ==
  /\ mpc = "build"
  /\ total' = Len(Args)
  /\ mpc' = "next"
  /\ UNCHANGED <<chunksize, nworkers, completed, taken, busy, outqueue, subsets,
                 subset, sln, name, data, files, rmwlog>>
  /\ UNCHANGED <<genVars, solveVars, statVars>>

\* an idle worker takes the next chunk from the task queue; the workers are
\* identical processes, so of the idle ones the first is the one that takes
WorkerTake(w) ==
  /\ mpc \notin {"reset", "build", "done"}
  /\ busy[w] = 0
  /\ \A v \in 1..(w - 1) : busy[v] # 0
  /\ taken < NumChunks
  /\ taken' = taken + 1
  /\ busy' = [busy EXCEPT ![w] = taken + 1]
  /\ UNCHANGED <<mpc, chunksize, nworkers, total, completed, outqueue, subsets,
                 subset, sln, name, data, files, rmwlog>>
  /\ UNCHANGED <<genVars, solveVars, statVars>>

\* a worker that ran _solvetolist on its tasks and also stored the Solutions
WorkerFinishAndStore(w) ==
  /\ busy[w] # 0
  /\ outqueue' = Append(outqueue, ChunkResult(busy[w]))
  /\ busy' = [busy EXCEPT ![w] = 0]
  /\ LET found == ChunkResult(busy[w])
         hits == {k \in 1..Len(found) : Len(found[k]) > 0}
     IN IF hits = {}
        THEN UNCHANGED <<files, rmwlog>>
        ELSE LET s == found[CHOOSE k \in hits : TRUE][1]
             IN /\ files' = Stored(files, DateName(s),
                                   Append(Loaded(files, DateName(s)), Entry(s)))
                /\ rmwlog' = rmwlog \o
                     <<[who |-> "worker", op |-> "read", stem |-> DateName(s)],
                       [who |-> "worker", op |-> "write", stem |-> DateName(s)]>>
  /\ UNCHANGED <<mpc, chunksize, nworkers, total, completed, taken, subsets,
                 subset, sln, name, data>>
  /\ UNCHANGED <<genVars, solveVars, statVars>>

\* a worker has run _solvetolist on every task of its chunk: the results go to
\* the result queue
WorkerFinish(w) ==
  /\ busy[w] # 0
  /\ outqueue' = Append(outqueue, ChunkResult(busy[w]))
  /\ busy' = [busy EXCEPT ![w] = 0]
  /\ UNCHANGED <<mpc, chunksize, nworkers, total, completed, taken, subsets,
                 subset, sln, name, data, files, rmwlog>>
  /\ UNCHANGED <<genVars, solveVars, statVars>>

\* line 245: the iterator hands out the next solution_subset
NextSubset ==
  /\ mpc = "next"
  /\ subsets # <<>> \/ outqueue # <<>>
  /\ LET avail == IF subsets # <<>> THEN subsets ELSE Head(outqueue)
     IN /\ subset' = Head(avail)
        /\ subsets' = Tail(avail)
        /\ outqueue' = IF subsets # <<>> THEN outqueue ELSE Tail(outqueue)
  /\ mpc' = "subset"
  /\ UNCHANGED <<chunksize, nworkers, total, completed, taken, busy, sln, name, data,
                 files, rmwlog>>
  /\ UNCHANGED <<genVars, solveVars, statVars>>

\* lines 246-247 and 282-287: solvemp yields a Solution, __main__ names its file
YieldSolution ==
  /\ mpc = "subset"
  /\ subset # <<>>
  /\ sln' = Head(subset)
  /\ subset' = Tail(subset)
  /\ yielded' = Append(yielded, Head(subset))
  /\ name' = DateName(Head(subset))
  /\ mpc' = "read"
  /\ UNCHANGED <<chunksize, nworkers, total, completed, taken, busy, outqueue,
                 subsets, data, files, rmwlog>>
  /\ UNCHANGED <<genVars, spc, fixture, order, stack, statVars>>

\* lines 289-299: the collection of the date is loaded, the Solution appended
ReadFile ==
  /\ mpc = "read"
  /\ data' = Append(Loaded(files, name), Entry(sln))
  /\ rmwlog' = Append(rmwlog, [who |-> "coordinator", op |-> "read", stem |-> name])
  /\ mpc' = "write"
  /\ UNCHANGED <<chunksize, nworkers, total, completed, taken, busy, outqueue,
                 subsets, subset, sln, name, files>>
  /\ UNCHANGED <<genVars, solveVars, statVars>>

\* lines 301-302: the collection is written back
WriteFile ==
  /\ mpc = "write"
  /\ files' = Stored(files, name, data)
  /\ rmwlog' = Append(rmwlog, [who |-> "coordinator", op |-> "write", stem |-> name])
  /\ mpc' = "subset"
  /\ UNCHANGED <<chunksize, nworkers, total, completed, taken, busy, outqueue,
                 subsets, subset, sln, name, data>>
  /\ UNCHANGED <<genVars, solveVars, statVars>>

\* line 248: the subset is through
Advance ==
  /\ mpc = "subset"
  /\ subset = <<>>
  /\ completed' = completed + 1
  /\ mpc' = "next"
  /\ UNCHANGED <<chunksize, nworkers, total, taken, busy, outqueue, subsets, subset,
                 sln, name, data, files, rmwlog>>
  /\ UNCHANGED <<genVars, solveVars, statVars>>

\* every task's result was handed out: the loops end
Finish ==
  /\ mpc = "next"
  /\ completed = total
  /\ mpc' = "done"
  /\ UNCHANGED <<chunksize, nworkers, total, completed, taken, busy, outqueue,
                 subsets, subset, sln, name, data, files, rmwlog>>
  /\ UNCHANGED <<genVars, solveVars, statVars>>

MPNext ==
  \/ ResetDir \/ BuildArgs
  \/ \E w \in 1..nworkers : WorkerTake(w)
  \/ \E w \in 1..nworkers : WorkerFinish(w)
  \/ NextSubset \/ YieldSolution \/ ReadFile \/ WriteFile \/ Advance \/ Finish

SpecMP == MPInit /\ [][MPNext]_vars

(***************************************************************************)
(* Properties of the orientation enumerator and the placement generator    *)
(***************************************************************************)
\* cells of a shape, relative to its top-left corner (0-based)
ShapeCells(o) ==
  {cell \in (0..(Len(o) - 1)) \X (0..(Len(o[1]) - 1)) : o[cell[1] + 1][cell[2] + 1] = 1}

\* cells of a board that hold 1 (0-based row and column)
BoardCells(b) ==
  {cell \in (0..(BOARD_DIM_SIZE - 1)) \X (0..(BOARD_DIM_SIZE - 1)) :
     b[cell[1] + 1][cell[2] + 1] = 1}

Blocked == BoardCells(START_BOARD)

\* the anchor keeps the shape on the board and off the blocked cells
AnchorAllowed(o, r, c) ==
  /\ r <= BOARD_DIM_SIZE - Len(o)
  /\ c <= BOARD_DIM_SIZE - Len(o[1])
  /\ \A cell \in ShapeCells(o) : <<r + cell[1], c + cell[2]>> \notin Blocked

\* iter_placements has visited every anchor of orientation oi
OrientationPlaced ==
  /\ gpc \in {"place", "done"}
  /\ oi \in 1..Len(orientations)
  /\ step = AnchorCount(orientations[oi])

\* C4: every yielded placement holds exactly the anchored shape, all values 0
\* or 1, and shares no cell with the Baseline; and once iter_placements is
\* through with an orientation, an anchor (r, c) of the 7x7 grid has been
\* yielded (exactly once) iff the shape stays on the board there and touches no
\* blocked cell.
C4_PlacementsIffAllowed ==
  /\ \A n \in 1..Len(placed) :
       LET e == placed[n]
           o == orientations[e.o]
       IN /\ \A r \in 1..BOARD_DIM_SIZE, c \in 1..BOARD_DIM_SIZE : e.mask[r][c] \in {0, 1}
          /\ BoardCells(e.mask) =
               {<<e.top_row + cell[1], e.left_col + cell[2]>> : cell \in ShapeCells(o)}
          /\ BoardCells(e.mask) \cap Blocked = {}
  /\ OrientationPlaced =>
       \A r \in 0..(BOARD_DIM_SIZE - 1), c \in 0..(BOARD_DIM_SIZE - 1) :
         LET hits == {n \in 1..Len(placed) :
                        placed[n].o = oi /\ placed[n].top_row = r /\ placed[n].left_col = c}
         IN IF AnchorAllowed(orientations[oi], r, c)
            THEN Cardinality(hits) = 1 ELSE hits = {}

\* an orientation with a blocked cell under some in-range anchor has been
\* worked through, and some of its anchors were yielded
C4_Witness ==
  /\ OrientationPlaced
  /\ \E n \in 1..Len(placed) : placed[n].o = oi
  /\ \E r \in 0..(BOARD_DIM_SIZE - Len(orientations[oi])),
        c \in 0..(BOARD_DIM_SIZE - Len(orientations[oi][1])) :
       ~AnchorAllowed(orientations[oi], r, c)

\* C5: the orientations kept are pairwise different (in dimensions or in some
\* cell) at every moment, and the finished list has 1, 2, 4 or 8 entries.
C5_OrientationsDistinct ==
  /\ \A a, b \in 1..Len(orientations) : a # b => orientations[a] # orientations[b]
  /\ gpc \in {"place", "done"} => Len(orientations) \in {1, 2, 4, 8}

\* a piece with a symmetry: some of the 8 candidates were dropped
C5_Witness == gpc = "done" /\ Len(orientations) = 4

\* C6 as stated: 1 orientation for RECT, 8 for ELL, 4 for CEE.
C6_Original ==
  gpc \in {"place", "done"} =>
    /\ PIECE_NAMES[piece] = "RECT" => Len(orientations) = 1
    /\ PIECE_NAMES[piece] = "ELL" => Len(orientations) = 8
    /\ PIECE_NAMES[piece] = "CEE" => Len(orientations) = 4

\* C6 amended: 2 orientations for RECT (2x3 and 3x2), 8 for ELL, 4 for CEE.
C6_Amended ==
  gpc \in {"place", "done"} =>
    /\ PIECE_NAMES[piece] = "RECT" =>
         /\ Len(orientations) = 2
         /\ {Shape(orientations[n]) : n \in 1..2} = {<<2, 3>>, <<3, 2>>}
    /\ PIECE_NAMES[piece] = "ELL" => Len(orientations) = 8
    /\ PIECE_NAMES[piece] = "CEE" => Len(orientations) = 4

C6_Witness == gpc = "done" /\ PIECE_NAMES[piece] = "RECT" /\ Len(orientations) = 2

(***************************************************************************)
(* Properties of the search                                                *)
(***************************************************************************)
Range(f) == {f[x] : x \in DOMAIN f}

AllCells == (1..BOARD_DIM_SIZE) \X (1..BOARD_DIM_SIZE)

\* C1: every Solution yielded is the Baseline followed by one candidate of
\* each of the 8 lists, and the cell-wise sum has 47 cells at 1, 2 cells at 0
\* and no cell above 1.
C1_CoveredExactlyOnce ==
  \A n \in 1..Len(yielded) :
    LET solution == yielded[n]
        summed == ArrSum(solution)
    IN /\ Len(solution) = 9
       /\ solution[1] = START_BOARD
       /\ \A k \in 1..8 : solution[k + 1] \in Range(Lists[k])
       /\ Cardinality({cell \in AllCells : summed[cell[1]][cell[2]] = 1}) = 47
       /\ Cardinality({cell \in AllCells : summed[cell[1]][cell[2]] = 0}) = 2
       /\ \A cell \in AllCells : summed[cell[1]][cell[2]] <= 1

\* the search has gone on past a pruned branch and yielded a Solution
C1_Witness == Len(yielded) >= 1 /\ stack # <<>> /\ Overlaps(Top.set_pieces_sum)

MonthCells == (1..2) \X (1..6)

DayCells == ((3..6) \X (1..7)) \cup ({7} \X (1..3))

\* cells (1-based) that no piece and no blocked cell covers
ZeroCells(solution) ==
  {cell \in AllCells : \A k \in 1..Len(solution) : solution[k][cell[1]][cell[2]] = 0}

Label(cell) == MONTH_DAY_DECODER[cell[1]][cell[2]]

\* C3 as stated: the uncovered cells of every Solution yielded are one month
\* cell and one day cell, and the Date Key is the month label, "-", the day
\* label.
C3_Original ==
  \A n \in 1..Len(yielded) :
    \E m \in MonthCells, d \in DayCells :
      /\ ZeroCells(yielded[n]) = {m, d}
      /\ DateName(yielded[n]) = Label(m) \o <<"-">> \o Label(d)

RowMajorBefore(a, b) == a[1] < b[1] \/ (a[1] = b[1] /\ a[2] < b[2])

\* C3 amended: the uncovered cells of every Solution yielded are two different
\* labelled cells (month or day cells, never a "???" cell), and the Date Key
\* is their two labels in row-major order joined by "-"; it is a month
\* followed by a day exactly when one cell is a month cell and the other a day
\* cell.
C3_Amended ==
  \A n \in 1..Len(yielded) :
    LET z == ZeroCells(yielded[n])
    IN /\ Cardinality(z) = 2
       /\ z \subseteq MonthCells \cup DayCells
       /\ \E a \in z, b \in z :
            /\ RowMajorBefore(a, b)
            /\ DateName(yielded[n]) = Label(a) \o <<"-">> \o Label(b)
            /\ (a \in MonthCells /\ b \in DayCells) <=>
                 (\E m \in z : m \in MonthCells) /\ (\E d \in z : d \in DayCells)

\* Solutions of all three kinds have been yielded: month and day, two days
C3_Witness ==
  /\ \E n \in 1..Len(yielded) : ZeroCells(yielded[n]) \subseteq DayCells
  /\ \E n \in 1..Len(yielded) :
       /\ ZeroCells(yielded[n]) \cap MonthCells # {}
       /\ ZeroCells(yielded[n]) \cap DayCells # {}

\* the candidates of piece p, whatever the order of the lists
CandidatesOf(p) == Candidates(fixture)[p]

Disjoint(a, b) == \A cell \in AllCells : ~(a[cell[1]][cell[2]] # 0 /\ b[cell[1]][cell[2]] # 0)

\* one candidate per piece, pairwise disjoint and disjoint from the Baseline
Choices ==
  {g \in [1..Len(PIECE_SHAPES) -> 1..MaxCand] :
     /\ \A p \in DOMAIN g : g[p] <= Len(CandidatesOf(p))
     /\ \A p \in DOMAIN g : Disjoint(START_BOARD, CandidatesOf(p)[g[p]])
     /\ \A p, q \in DOMAIN g :
          p < q => Disjoint(CandidatesOf(p)[g[p]], CandidatesOf(q)[g[q]])}

ValidAssignments ==
  {{START_BOARD} \cup {CandidatesOf(p)[g[p]] : p \in DOMAIN g} : g \in Choices}

\* C10: when the generator is exhausted it has yielded every combination of one
\* candidate per piece that covers no cell twice, each once, and nothing else;
\* viewed as sets of masks the result is the one of the search over the lists
\* in the order of PIECE_PLACEMENTS, whatever the order of the lists was.
C10_CompleteAnyOrder ==
  spc = "done" =>
    /\ {Range(yielded[n]) : n \in 1..Len(yielded)} = ValidAssignments
    /\ \A a, b \in 1..Len(yielded) : a # b => yielded[a] # yielded[b]
    /\ Len(yielded) = Cardinality(ValidAssignments)
    /\ LET fixed == solve[fixture]
       IN {Range(yielded[n]) : n \in 1..Len(yielded)} =
            {Range(fixed[n]) : n \in 1..Len(fixed)}

\* a search over the lists in another order ended with several Solutions
C10_Witness ==
  /\ spc = "done"
  /\ order # [n \in 1..Len(PIECE_SHAPES) |-> n]
  /\ Len(yielded) >= 2

\* the Solutions of a sequence equal to s
Count(seq, s) == Cardinality({n \in 1..Len(seq) : seq[n] = s})

\* C2: whatever the order in which the chunks come back, for every chunk size
\* and number of workers, solvemp never yields a Solution more often than
\* solve() does, and when it ends it has yielded every Solution exactly as
\* often as solve(): the two yield the same multiset.
C2_SameMultiset ==
  LET sequential == solve[fixture]
  IN /\ mpc # "off" =>
          \A n \in 1..Len(yielded) :
            Count(yielded, yielded[n]) <= Count(sequential, yielded[n])
     /\ mpc = "done" =>
          /\ Len(yielded) = Len(sequential)
          /\ \A n \in 1..Len(sequential) :
               Count(yielded, sequential[n]) = Count(sequential, sequential[n])

\* a run over several chunks and workers ended with the Solutions yielded in
\* another order than solve() yields them
C2_Witness ==
  /\ mpc = "done"
  /\ chunksize < total
  /\ nworkers >= 2
  /\ Len(yielded) >= 2
  /\ yielded # solve[fixture]

\* the read-modify-writes that are complete
Writes == {n \in 1..Len(rmwlog) : rmwlog[n].op = "write"}

\* C7: files are opened by the coordinating process only; every read is
\* followed by the write of the same file before the next read (no two
\* read-modify-writes overlap); the k-th read-modify-write is the one of the
\* k-th Solution received (in every state the latest is of the Solution of its
\* rank), and when the run ends there has been exactly one for each Solution
\* received.
C7_OneWriterAtATime ==
  /\ \A n \in 1..Len(rmwlog) :
       /\ rmwlog[n].who = "coordinator"
       /\ rmwlog[n].op = (IF n % 2 = 1 THEN "read" ELSE "write")
       /\ n % 2 = 0 => rmwlog[n].stem = rmwlog[n - 1].stem
       /\ (n + 1) \div 2 <= Len(yielded)
  /\ rmwlog # <<>> =>
       rmwlog[Len(rmwlog)].stem = DateName(yielded[(Len(rmwlog) + 1) \div 2])
  /\ mpc \in {"next", "subset", "done"} => Len(rmwlog) = 2 * Len(yielded)
  /\ mpc = "read" => Len(rmwlog) = 2 * Len(yielded) - 2
  /\ mpc = "write" => Len(rmwlog) = 2 * Len(yielded) - 1

\* the coordinator is between the read and the write of its second
\* read-modify-write while a worker is computing a chunk
C7_Witness ==
  /\ mpc = "write"
  /\ Len(rmwlog) >= 3
  /\ \E w \in DOMAIN busy : busy[w] # 0

\* the effect the claim states for the persist step of Solution sln
AppendedToItsFile ==
  LET before == IF name \in DOMAIN files THEN files[name] ELSE <<>>
  IN /\ DOMAIN files' = DOMAIN files \cup {name}
     /\ Len(files'[name]) = Len(before) + 1
     /\ SubSeq(files'[name], 1, Len(before)) = before
     /\ files'[name][Len(before) + 1] = SubSeq(sln, 2, 9)
     /\ START_BOARD \notin Range(files'[name][Len(before) + 1])
     /\ \A other \in DOMAIN files \ {name} : files'[other] = files[other]

\* C8: the write of a persist step leaves in the file of the Date Key what the
\* file held before (nothing, if it did not exist), in the same order, followed
\* by the 8 placements of the Solution without the start board: one entry
\* more than before, every other file as it was.  Besides the reset of the
\* directory at the start, no other step changes a file.
C8_AppendKeepsPrior ==
  [][/\ (mpc = "write" /\ mpc' # "write") => AppendedToItsFile
     /\ files' # files => mpc = "reset" \/ (mpc = "write" /\ mpc' # "write")]_vars

\* a Solution was appended to a collection that held one already, next to the
\* file of another Date Key or alone
C8_Witness ==
  /\ mpc = "subset"
  /\ name \in DOMAIN files
  /\ Len(files[name]) >= 2
  /\ files[name][Len(files[name])] = Entry(sln)

(***************************************************************************)
(* The statistics tool (src/stat.py)                                       *)
(***************************************************************************)
VALID_MONTH_DAYS ==
  [m \in MonthCells |->
     CASE Label(m) \in {<<"F","e","b">>} -> 29
       [] Label(m) \in {<<"A","p","r">>, <<"J","u","n">>, <<"S","e","p">>,
                        <<"N","o","v">>} -> 30
       [] OTHER -> 31]

\* s.split(sep) for a one-character separator
RECURSIVE Split(_, _)
Split(chars, sep) ==
  IF \A n \in 1..Len(chars) : chars[n] # sep THEN <<chars>>
  ELSE LET at == CHOOSE n \in 1..Len(chars) :
                   chars[n] = sep /\ \A k \in 1..(n - 1) : chars[k] # sep
       IN <<SubSeq(chars, 1, at - 1)>> \o Split(SubSeq(chars, at + 1, Len(chars)), sep)

Digits == <<"0", "1", "2", "3", "4", "5", "6", "7", "8", "9">>

\* int(chars) raises ValueError unless chars is a decimal numeral (signs,
\* blanks and underscores, which int() also accepts, occur in no label)
IntParses(chars) ==
  /\ Len(chars) > 0
  /\ \A n \in 1..Len(chars) : \E d \in 1..10 : Digits[d] = chars[n]

RECURSIVE IntOf(_)
IntOf(chars) ==
  IF Len(chars) = 0 THEN 0
  ELSE 10 * IntOf(SubSeq(chars, 1, Len(chars) - 1))
         + (CHOOSE d \in 0..9 : Digits[d + 1] = chars[Len(chars)])

\* the keys of VALID_MONTH_DAYS
IsMonth(left) == \E m \in MonthCells : Label(m) = left

DaysOf(left) == VALID_MONTH_DAYS[CHOOSE m \in MonthCells : Label(m) = left]

\* is_valid_date with < for <=
is_valid_date_strict(stem) ==
  LET parts == Split(stem, "-")
  IN IF Len(parts) # 2 THEN "ValueError"
     ELSE IF ~IntParses(parts[2]) THEN "False"
     ELSE IF IsMonth(parts[1]) /\ IntOf(parts[2]) < DaysOf(parts[1])
          THEN "True" ELSE "False"

\* is_valid_date(path) on path.stem: "True", "False", or "ValueError" when the
\* unpacking of line 26, which no try covers, fails
is_valid_date(stem) ==
  LET parts == Split(stem, "-")
  IN IF Len(parts) # 2 THEN "ValueError"
     ELSE IF ~IntParses(parts[2]) THEN "False"
     ELSE IF IsMonth(parts[1]) /\ IntOf(parts[2]) <= DaysOf(parts[1])
          THEN "True" ELSE "False"

(***************************************************************************)
(* Bounds of the directories the tool is run on: at most MaxFiles files of *)
(* at most MaxCount Solutions, named as __main__ names them after two      *)
(* uncovered cells out of STAT_CELLS.                                      *)
(***************************************************************************)
MaxFiles == 2

MaxCount == 2

\* Jan, Feb, 029, 030, 031
STAT_CELLS == {<<1, 1>>, <<1, 2>>, <<7, 1>>, <<7, 2>>, <<7, 3>>}

FileStems ==
  {Join(<<"-">>, <<Label(pair[1]), Label(pair[2])>>) :
     pair \in {q \in STAT_CELLS \X STAT_CELLS : RowMajorBefore(q[1], q[2])}}

Directories ==
  UNION {[S -> 1..MaxCount] :
           S \in {T \in SUBSET FileStems : Cardinality(T) \in 1..MaxFiles}}

StatInit ==
  /\ GenOff /\ SolveOff /\ MPOff
  /\ tpc = "loop"
  /\ dir \in Directories
  /\ todo = DOMAIN dir
  /\ solution_count = 0
  /\ valid_solution_count = 0
  /\ most_solveable_count = None /\ most_solvable_name = None
  /\ least_solveable_count = None /\ least_solvable_name = None

\* lines 43-60: one iteration of the loop over iterdir(), which fixes no order
StatStep ==
  /\ tpc = "loop"
  /\ \E sln_path \in todo :
       LET sln_for_date == dir[sln_path]
           valid == is_valid_date(sln_path)
           more == most_solveable_count = None \/ sln_for_date > most_solveable_count[1]
           less == least_solveable_count = None \/ sln_for_date < least_solveable_count[1]
       IN /\ todo' = todo \ {sln_path}
          /\ solution_count' = solution_count + sln_for_date
          /\ tpc' = IF valid = "ValueError" THEN "raised" ELSE tpc
          /\ valid_solution_count' =
               IF valid = "True" THEN valid_solution_count + sln_for_date
               ELSE valid_solution_count
          /\ most_solveable_count' =
               IF valid = "True" /\ more THEN Some(sln_for_date) ELSE most_solveable_count
          /\ most_solvable_name' =
               IF valid = "True" /\ more THEN Some(sln_path) ELSE most_solvable_name
          /\ least_solveable_count' =
               IF valid = "True" /\ less THEN Some(sln_for_date) ELSE least_solveable_count
          /\ least_solvable_name' =
               IF valid = "True" /\ less THEN Some(sln_path) ELSE least_solvable_name
  /\ UNCHANGED <<dir, genVars, solveVars, mpVars>>

\* lines 62-66: the report; the percentage divides by solution_count
StatPrint ==
  /\ tpc = "loop"
  /\ todo = {}
  /\ tpc' = IF solution_count = 0 THEN "raised" ELSE "done"
  /\ UNCHANGED <<dir, todo, solution_count, valid_solution_count,
                 most_solveable_count, most_solvable_name, least_solveable_count,
                 least_solvable_name, genVars, solveVars, mpVars>>

StatNext == StatStep \/ StatPrint

SpecStat == StatInit /\ [][StatNext]_vars

(***************************************************************************)
(* Properties of the statistics tool                                       *)
(***************************************************************************)
DAYS_IN_MONTH == <<31, 29, 31, 30, 31, 30, 31, 31, 30, 31, 30, 31>>

MonthAbbreviation(m) == IF m <= 6 THEN Label(<<1, m>>) ELSE Label(<<2, m - 6>>)

ThreeDigits(d) == <<Digits[(d \div 100) + 1], Digits[((d \div 10) % 10) + 1], Digits[(d % 10) + 1]>>

\* the stem is a month abbreviation, "-", and a day of that month
RealDate(stem) ==
  \E m \in 1..12 : \E d \in 1..DAYS_IN_MONTH[m] :
    stem = MonthAbbreviation(m) \o <<"-">> \o ThreeDigits(d)

RECURSIVE SolutionsIn(_)
SolutionsIn(stems) ==
  IF stems = {} THEN 0
  ELSE LET x == CHOOSE x \in stems : TRUE IN dir[x] + SolutionsIn(stems \ {x})

\* C9: the tool never raises on a file named after two cells; the Solutions of
\* every file read so far are in solution_count, those of the files that name
\* a real date, and only those, in valid_solution_count; the most- and
\* least-solvable dates are real dates read so far with the largest and the
\* smallest count among them, or None when no real date was read.
C9_InvalidCountedNotTallied ==
  LET seen == DOMAIN dir \ todo
      real == {x \in seen : RealDate(x)}
  IN /\ tpc # "raised"
     /\ solution_count = SolutionsIn(seen)
     /\ valid_solution_count = SolutionsIn(real)
     /\ real = {} =>
          /\ most_solvable_name = None /\ most_solveable_count = None
          /\ least_solvable_name = None /\ least_solveable_count = None
     /\ real # {} =>
          /\ Len(most_solvable_name) = 1 /\ Len(least_solvable_name) = 1
          /\ most_solvable_name[1] \in real
          /\ least_solvable_name[1] \in real
          /\ most_solveable_count = Some(dir[most_solvable_name[1]])
          /\ least_solveable_count = Some(dir[least_solvable_name[1]])
          /\ \A x \in real : dir[x] <= most_solveable_count[1]
          /\ \A x \in real : dir[x] >= least_solveable_count[1]

\* the tool is through with a directory that holds a real date and a file
\* with a month and a day beyond it, the latter with more Solutions
C9_Witness ==
  /\ tpc = "done"
  /\ \E x \in DOMAIN dir, y \in DOMAIN dir :
       /\ RealDate(x)
       /\ ~RealDate(y)
       /\ Split(y, "-")[1] \in {Label(m) : m \in MonthCells}
       /\ IntParses(Split(y, "-")[2])
       /\ dir[y] > dir[x]
       /\ solution_count > valid_solution_count

====
